---- MODULE Spec2Model ----
(***************************************************************************)
(* The audio delivery engine of src/audio_player/audioPlayer.py:           *)
(* AudioPlayer.run (the Playback Loop, an asyncio coroutine),              *)
(* AudioPlayer._play_audio_blocking (the Device Sink, run in a worker      *)
(* thread by asyncio.to_thread), AudioPlayer._scan_for_new_audio_files     *)
(* (the Directory Watcher) and AudioPlayer.API (the Control Surface).      *)
(*                                                                         *)
(* Granularity.  run() is a coroutine: the code between two awaits runs    *)
(* without interruption by any other code of the event-loop thread, so     *)
(* each action of the Loop is the code from one await to the next.  The    *)
(* Control Surface is called from the event-loop thread (main.py calls     *)
(* call_llm, and through it the tools, synchronously), so its actions are  *)
(* enabled only while the Loop is suspended at an await.  The Sink runs in *)
(* its own thread: its steps interleave freely with the Control Surface    *)
(* and with the producer that drops files into the directory.              *)
(*                                                                         *)
(* Time.  Every sleep lasts at least its nominal time and may last longer   *)
(* (a synchronous call_llm blocks the event loop), so of the clock the      *)
(* model keeps what run() reads of it: whether scan_interval has passed     *)
(* since the last scan.  It may become true whenever the Loop is suspended. *)
(*                                                                         *)
(* Environment.  src/llm_client.py owns the player: it writes the clips,   *)
(* sweeps old .wav files out of the same directory                         *)
(* (cleanup_audio_files_static), calls the Control Surface from its tools  *)
(* and starts and stops run() (start_audio_player, stop_audio_player).     *)
(* ScanSpec runs the Watcher and the registration of what it returns on    *)
(* their own, from any directory content and any tracking state.           *)
(***************************************************************************)
EXTENDS Integers, Sequences, FiniteSets, TLC

\* ---------------------------------------------------------------- bounds
\* Manual enqueues are accepted while the queue holds fewer entries.
MaxQueue == 2
\* Number of 1024-frame chunks in every clip file.
NChunks == 2
\* ------------------------------------------------------ program constants
\* for attempt in range(3)
MaxAttempts == 3

\* ------------------------------------------------------------ path model
\* A path is a record: directory, file stem and extension.
audio_dir == "audio"

Path(stem, ext) == [dir |-> audio_dir, stem |-> stem, ext |-> ext]

\* currently_playing = None
NoPath == [dir |-> "", stem |-> "", ext |-> ""]

\* The clip files the producer may drop into the watched directory.
Clips == {Path("a", "wav"), Path("b", "WAV")}

\* str.lower() on the extensions in use.
Lower(ext) == IF ext = "WAV" THEN "wav" ELSE ext

\* file.lower().endswith(".wav")
IsWav(f) == Lower(f.ext) = "wav"

\* Arguments of API.play_audio: a bare file name or an absolute path.
Names ==
  [abs : {FALSE}, dir : {""}, stem : {"a", "b"}, ext : {"wav", "WAV"}]
    \cup [abs : {TRUE}, dir : {audio_dir}, stem : {"a"}, ext : {"wav"}]

\* os.path.isabs / os.path.join(audio_dir, file_path) in API.play_audio.
Resolve(n) ==
  IF n.abs THEN [dir |-> n.dir, stem |-> n.stem, ext |-> n.ext]
  ELSE [dir |-> audio_dir, stem |-> n.stem, ext |-> n.ext]

\* ------------------------------------------------------------- helpers
Range(s) == {s[i] : i \in 1..Len(s)}

\* Every order in which os.listdir may return the files of S.
Perms(S) ==
  {s \in [1..Cardinality(S) -> S] : \A i, j \in 1..Cardinality(S) : s[i] = s[j] => i = j}

IsPrefix(s, t) == Len(s) <= Len(t) /\ \A i \in 1..Len(s) : s[i] = t[i]

\* wf.readframes(chunk_size): chunk number i of the file, 0 for no data.
ReadFrames(i) == IF i <= NChunks THEN i ELSE 0

\* The chunk sequence of an uninterrupted playback.
AllChunks == [i \in 1..NChunks |-> i]

VARIABLES
  enabled,            \* self.enabled
  play_queue,         \* self.play_queue (queue.SimpleQueue)
  abort_flag,         \* self.abort_flag
  paused,             \* self.paused
  is_speaking,        \* self.is_speaking
  terminate,          \* self.terminate
  currently_playing,  \* self.currently_playing
  queued_files,       \* self.queued_files
  disk,               \* the files that exist on disk
  pc,                 \* where run() is suspended
  attempt,            \* run(): for attempt in range(3)
  deleted,            \* run(): deleted
  scan_due,           \* current_time - last_scan_time >= scan_interval
  sk,                 \* where _play_audio_blocking is
  handles,            \* the handles the Sink session holds: wf, p, stream
  data,               \* _play_audio_blocking: data (chunk number, 0 = empty)
  out,                \* the chunks written to the output stream this session
  released,           \* the handles released by the finally block, in order
  outcome,            \* history: how the last session's playback loop ended
  removeCalls,        \* history: os.remove calls made for the last clip
  failKinds,          \* history: the kinds of error those calls raised
  dupBehind,          \* history: when the session was dispatched, the queue
                      \*          held another entry of the same path
  heardDup,           \* history: the clips heard in such a session whose
                      \*          file has stayed and whose path has not been
                      \*          dispatched since
  gaveUp,             \* history: the clips left on disk by a failed deletion
                      \*          and not put on the queue since
  waited,             \* history: the session slept in the pause loop after
                      \*          it had written a chunk
  abortDropped,       \* history: the dispatching iteration cleared a set abort
  api_raised,         \* history: the last Control Surface call raised
  restarted           \* history: run() was called again after it had returned
                      \*          AttributeError

vars ==
  <<enabled, play_queue, abort_flag, paused, is_speaking, terminate,
    currently_playing, queued_files, disk, pc, attempt, deleted, scan_due, sk,
    handles, data, out, released, outcome, removeCalls, failKinds, dupBehind,
    heardDup, gaveUp, waited, abortDropped,
    api_raised, restarted>>

flagVars == <<abort_flag, paused, terminate>>
sinkVars == <<sk, handles, data, out, released>>
delVars == <<attempt, deleted, removeCalls, failKinds>>
sessionGhosts == <<outcome, waited, abortDropped, dupBehind>>

\* AudioPlayer.__init__; the directory may already hold clips.
Init ==
  /\ enabled \in BOOLEAN
  /\ play_queue = <<>>
  /\ abort_flag = FALSE
  /\ paused = FALSE
  /\ is_speaking = FALSE
  /\ terminate = FALSE
  /\ currently_playing = NoPath
  /\ queued_files = {}
  /\ disk \in SUBSET Clips
  /\ pc = "init"
  /\ attempt = 0
  /\ deleted = FALSE
  /\ scan_due = TRUE
  /\ sk = "none"
  /\ handles = {}
  /\ data = 0
  /\ out = <<>>
  /\ released = <<>>
  /\ outcome = "none"
  /\ removeCalls = 0
  /\ failKinds = {}
  /\ dupBehind = FALSE
  /\ heardDup = {}
  /\ gaveUp = {}
  /\ waited = FALSE
  /\ abortDropped = FALSE
  /\ api_raised = FALSE
  /\ restarted = FALSE

\* Time passes while the Loop is suspended: the scan may have become due.
TimePasses == scan_due' \in {scan_due, TRUE}

\* ------------------------------------------------------ Directory Watcher
\* _scan_for_new_audio_files: the .wav files of the directory that are neither
\* in queued_files nor currently playing (os.listdir fixes their order).
scan_for_new_audio_filesCaseSensitive ==
  {f \in disk : f.dir = audio_dir /\ f.ext = "wav"
                /\ f \notin queued_files /\ f # currently_playing}

scan_for_new_audio_files ==
  {f \in disk : f.dir = audio_dir /\ IsWav(f)
                /\ f \notin queued_files /\ f # currently_playing}

\* run(): current_time - last_scan_time >= scan_interval
ScanDue == scan_due

\* The files the iteration that starts now registers.
Found == IF ScanDue THEN scan_for_new_audio_files ELSE {}

\* run(): if not self.is_speaking: self.abort_flag = False
ResetAbortNever(a, speaking) == a

ResetAbort(a, speaking) == IF ~speaking THEN FALSE ELSE a

\* queue.SimpleQueue.get: the oldest entry, and the queue without it.
QueueGetNewest(q) == <<q[Len(q)], SubSeq(q, 1, Len(q) - 1)>>

QueueGet(q) == <<Head(q), Tail(q)>>

\* The iteration is over: its locals are dead (run() assigns attempt and
\* deleted again before it reads them) and the history of its clip ends.
ClearHistory ==
  /\ attempt' = 0
  /\ deleted' = FALSE
  /\ outcome' = "none"
  /\ removeCalls' = 0
  /\ failKinds' = {}
  /\ waited' = FALSE

\* ---------------------------------------------------------- Playback Loop
\* asyncio.create_task(player.run()): the coroutine starts.
Start ==
  /\ pc = "init"
  /\ pc' = "top"
  /\ UNCHANGED <<restarted, api_raised, enabled, play_queue, flagVars, is_speaking, currently_playing,
                 queued_files, disk, scan_due, sinkVars, delVars, sessionGhosts,
                 heardDup, gaveUp>>

\* while not self.terminate: the loop ends.
LoopExit ==
  /\ pc = "top"
  /\ terminate
  /\ pc' = "done"
  /\ UNCHANGED <<restarted, api_raised, enabled, play_queue, flagVars, is_speaking, currently_playing,
                 queued_files, disk, scan_due, sinkVars, delVars, sessionGhosts,
                 heardDup, gaveUp>>

\* if not self.enabled: await asyncio.sleep(1); continue
LoopDisabled ==
  /\ pc = "top"
  /\ ~terminate
  /\ ~enabled
  /\ pc' = "sleep_disabled"
  /\ UNCHANGED <<restarted, api_raised, enabled, play_queue, flagVars, is_speaking, currently_playing,
                 queued_files, disk, scan_due, sinkVars, delVars, sessionGhosts,
                 heardDup, gaveUp>>

WakeDisabled ==
  /\ pc = "sleep_disabled"
  /\ pc' = "top"
  /\ TimePasses
  /\ UNCHANGED <<restarted, api_raised, enabled, play_queue, flagVars, is_speaking, currently_playing,
                 queued_files, disk, sinkVars, delVars, sessionGhosts, heardDup,
                 gaveUp>>

\* os.listdir raises during the scan: nothing in run() catches it.
LoopScanRaises ==
  /\ pc = "top"
  /\ ~terminate
  /\ enabled
  /\ ScanDue
  /\ pc' = "crashed"
  /\ UNCHANGED <<restarted, api_raised, enabled, play_queue, flagVars, is_speaking, currently_playing,
                 queued_files, disk, scan_due, sinkVars, delVars, sessionGhosts,
                 heardDup, gaveUp>>

\* One iteration that finds the queue empty after the scan:
\* scan, reset abort, await asyncio.sleep(0.1).
LoopIdle ==
  /\ pc = "top"
  /\ ~terminate
  /\ enabled
  /\ \E order \in Perms(Found) :
       /\ play_queue \o order = <<>>
       /\ UNCHANGED <<play_queue, queued_files, heardDup>>
  /\ scan_due' = (scan_due /\ ~ScanDue)
  /\ abort_flag' = ResetAbort(abort_flag, is_speaking)
  /\ pc' = "sleep"
  /\ outcome' = "none"
  /\ UNCHANGED <<restarted, api_raised, enabled, paused, terminate, is_speaking, currently_playing,
                 disk, sinkVars, delVars, waited, abortDropped, dupBehind, gaveUp>>

\* run(): os.path.exists(file_path) on the path taken from the queue.
FileExistsAlways(p) == TRUE

FileExists(p) == p \in disk

\* self.queued_files.discard(file_path)
DiscardNothing(S, p) == S

Discard(S, p) == S \ {p}

\* One iteration whose dequeued path no longer exists:
\* scan, reset abort, get, discard from queued_files, continue.
LoopDropMissing ==
  /\ pc = "top"
  /\ ~terminate
  /\ enabled
  /\ \E order \in Perms(Found) :
       LET q1 == play_queue \o order
       IN /\ q1 # <<>>
          /\ LET got == QueueGet(q1)
             IN /\ ~FileExists(got[1])
                /\ play_queue' = got[2]
                /\ queued_files' = Discard(queued_files \cup Found, got[1])
  /\ scan_due' = (scan_due /\ ~ScanDue)
  /\ abort_flag' = ResetAbort(abort_flag, is_speaking)
  /\ pc' = "top"
  /\ gaveUp' = gaveUp \ Found
  /\ outcome' = "missing"
  /\ UNCHANGED <<restarted, api_raised, enabled, paused, terminate, is_speaking, currently_playing,
                 disk, sinkVars, delVars, waited, abortDropped, dupBehind, heardDup>>

\* One iteration that dispatches a clip: scan, reset abort, get, set
\* is_speaking and currently_playing, await asyncio.to_thread(...).
LoopDispatch ==
  /\ pc = "top"
  /\ ~terminate
  /\ enabled
  /\ \E order \in Perms(Found) :
       LET q1 == play_queue \o order
       IN /\ q1 # <<>>
          /\ LET got == QueueGet(q1)
             IN /\ FileExists(got[1])
                /\ play_queue' = got[2]
                /\ queued_files' = queued_files \cup Found
                /\ currently_playing' = got[1]
                /\ dupBehind' = (got[1] \in Range(got[2]))
                /\ heardDup' = heardDup \ {got[1]}
  /\ scan_due' = (scan_due /\ ~ScanDue)
  /\ abort_flag' = ResetAbort(abort_flag, is_speaking)
  /\ abortDropped' = (abort_flag /\ ~abort_flag')
  /\ is_speaking' = TRUE
  /\ pc' = "await_play"
  /\ sk' = "open"
  /\ handles' = {}
  /\ data' = 0
  /\ out' = <<>>
  /\ released' = <<>>
  /\ gaveUp' = gaveUp \ Found
  /\ outcome' = "none"
  /\ UNCHANGED <<restarted, api_raised, enabled, paused, terminate, disk, delVars, waited>>

\* await asyncio.sleep(0.1) at the end of an iteration returns.
WakeIdle ==
  /\ pc = "sleep"
  /\ pc' = "top"
  /\ TimePasses
  /\ ClearHistory
  /\ UNCHANGED <<restarted, api_raised, dupBehind,
                 enabled, play_queue, flagVars, is_speaking, currently_playing,
                 queued_files, disk, sinkVars, abortDropped, heardDup, gaveUp>>


\* await asyncio.to_thread(self._play_audio_blocking, file_path) has returned.
PlaybackStarted == sk # "open"

PlaybackAwaitedNot == TRUE

PlaybackAwaited == sk = "returned"

\* run(): the code after the deletion loop, and the end of the iteration:
\* queued_files.discard(file_path); is_speaking = False;
\* currently_playing = None; await asyncio.sleep(0.1)
FinishClipKeepsQueued ==
  /\ queued_files' = queued_files
  /\ is_speaking' = FALSE
  /\ currently_playing' = NoPath
  /\ pc' = "sleep"

FinishClipKeepsCurrent ==
  /\ queued_files' = queued_files \ {currently_playing}
  /\ is_speaking' = FALSE
  /\ currently_playing' = currently_playing
  /\ pc' = "sleep"

FinishClip ==
  /\ queued_files' = queued_files \ {currently_playing}
  /\ is_speaking' = FALSE
  /\ currently_playing' = NoPath
  /\ pc' = "sleep"

\* The awaited playback returned: deleted = False; attempt = 0;
\* await asyncio.sleep(0.1) before the first os.remove.
AwaitPlayReturns ==
  /\ pc = "await_play"
  /\ PlaybackAwaited
  /\ IF sk = "returned"
       THEN /\ sk' = "none"
            /\ data' = 0
            /\ out' = <<>>
            /\ released' = <<>>
       ELSE UNCHANGED <<sk, data, out, released>>
  /\ deleted' = FALSE
  /\ attempt' = 0
  /\ pc' = "del_sleep"
  /\ waited' = FALSE
  /\ dupBehind' = FALSE
  /\ TimePasses
  /\ UNCHANGED <<restarted, api_raised, enabled, play_queue, flagVars, is_speaking, currently_playing,
                 queued_files, disk, handles, removeCalls, failKinds, outcome,
                 abortDropped, heardDup, gaveUp>>

\* The awaited playback raised (the finally block of the Sink failed):
\* except Exception: queued_files.discard(file_path), no deletion.  The
\* session's locals, with the handles it failed to release, go out of scope.
AwaitPlayRaises ==
  /\ pc = "await_play"
  /\ sk = "raised"
  /\ sk' = "none"
  /\ handles' = {}
  /\ data' = 0
  /\ out' = <<>>
  /\ released' = <<>>
  /\ FinishClip
  /\ waited' = FALSE
  /\ dupBehind' = FALSE
  /\ TimePasses
  /\ UNCHANGED <<restarted, api_raised, enabled, play_queue, flagVars, disk, delVars, outcome,
                 abortDropped, heardDup, gaveUp>>

\* os.remove(file_path) succeeds: deleted = True; break.
DeleteOk ==
  /\ pc = "del_sleep"
  /\ currently_playing \in disk
  /\ disk' = disk \ {currently_playing}
  /\ deleted' = TRUE
  /\ removeCalls' = removeCalls + 1
  /\ gaveUp' = gaveUp \ {currently_playing}
  /\ heardDup' = heardDup \ {currently_playing}
  /\ TimePasses
  /\ FinishClip
  /\ UNCHANGED <<restarted, api_raised, enabled, play_queue, flagVars, sinkVars, attempt, failKinds,
                 sessionGhosts>>

\* run(): if attempt < 2 (another attempt follows a PermissionError)
RetryAfterOneMore(a) == a < MaxAttempts

RetryAfter(a) == a < MaxAttempts - 1

\* os.remove(file_path) raises PermissionError (the file is locked):
\* retry after await asyncio.sleep(0.5), or give up after the third attempt.
DeletePermissionError ==
  /\ pc = "del_sleep"
  /\ currently_playing \in disk
  /\ removeCalls' = removeCalls + 1
  /\ failKinds' = failKinds \cup {"PermissionError"}
  /\ TimePasses
  /\ IF RetryAfter(attempt)
       THEN /\ pc' = "retry_sleep"
            /\ UNCHANGED <<queued_files, is_speaking, currently_playing, gaveUp>>
       ELSE /\ FinishClip
            /\ gaveUp' = gaveUp \cup {currently_playing}
  /\ UNCHANGED <<restarted, api_raised, enabled, play_queue, flagVars, disk, sinkVars, attempt, deleted,
                 sessionGhosts, heardDup>>

\* The for loop takes its next attempt after the retry delay.
WakeRetry ==
  /\ pc = "retry_sleep"
  /\ attempt' = attempt + 1
  /\ TimePasses
  /\ pc' = "del_sleep"
  /\ UNCHANGED <<restarted, api_raised, enabled, play_queue, flagVars, is_speaking, currently_playing,
                 queued_files, disk, sinkVars, deleted, removeCalls, failKinds,
                 sessionGhosts, heardDup, gaveUp>>

\* os.remove(file_path) raises another exception (FileNotFoundError when the
\* file is gone, any other OSError otherwise): except Exception: break.
DeleteOtherErrorRetries ==
  /\ pc = "del_sleep"
  /\ removeCalls' = removeCalls + 1
  /\ failKinds' = failKinds \cup {"OSError"}
  /\ TimePasses
  /\ IF RetryAfter(attempt)
       THEN /\ pc' = "retry_sleep"
            /\ UNCHANGED <<queued_files, is_speaking, currently_playing, gaveUp>>
       ELSE /\ FinishClip
            /\ gaveUp' = IF currently_playing \in disk THEN gaveUp \cup {currently_playing}
                         ELSE gaveUp
  /\ UNCHANGED <<restarted, api_raised, enabled, play_queue, flagVars, disk, sinkVars, attempt, deleted,
                 sessionGhosts, heardDup>>

DeleteOtherError ==
  /\ pc = "del_sleep"
  /\ removeCalls' = removeCalls + 1
  /\ failKinds' = failKinds \cup {"OSError"}
  /\ TimePasses
  /\ gaveUp' = IF currently_playing \in disk THEN gaveUp \cup {currently_playing}
               ELSE gaveUp
  /\ FinishClip
  /\ UNCHANGED <<restarted, api_raised, enabled, play_queue, flagVars, disk, sinkVars, attempt, deleted,
                 sessionGhosts, heardDup>>


\* ------------------------------------------------------------ Device Sink
Handles == {"stream", "p", "wf"}

\* The finally block releases what is held in the order stream, p, wf.
ReleaseOrder(h) == SelectSeq(<<"stream", "p", "wf">>, LAMBDA x : x \in h)

\* wave.open, pyaudio.PyAudio(), p.open and the first readframes succeed.
SinkOpen ==
  /\ sk = "open"
  /\ currently_playing \in disk
  /\ handles' = Handles
  /\ data' = ReadFrames(1)
  /\ sk' = "loop"
  /\ abortDropped' = FALSE
  /\ UNCHANGED <<restarted, api_raised, dupBehind,
                 enabled, play_queue, flagVars, is_speaking, currently_playing,
                 queued_files, disk, pc, scan_due, out, released, delVars,
                 outcome, waited, heardDup, gaveUp>>

\* One of them raises: the handles opened before it are held; except
\* Exception logs the error and the finally block follows.
SinkOpenFails ==
  /\ sk = "open"
  /\ \E h \in {{}, {"wf"}, {"wf", "p"}, Handles} :
       /\ currently_playing \notin disk => h = {}
       /\ handles' = h
  /\ outcome' = "error"
  /\ sk' = "finally"
  /\ abortDropped' = FALSE
  /\ UNCHANGED <<restarted, api_raised, dupBehind,
                 enabled, play_queue, flagVars, is_speaking, currently_playing,
                 queued_files, disk, pc, scan_due, data, out, released, delVars,
                 waited, heardDup, gaveUp>>

\* while len(data) > 0 ends: "Audio playback completed".
SinkCompleted ==
  /\ sk = "loop"
  /\ data = 0
  /\ outcome' = "completed"
  /\ sk' = "finally"
  /\ UNCHANGED <<restarted, api_raised, dupBehind,
                 enabled, play_queue, flagVars, is_speaking, currently_playing,
                 queued_files, disk, pc, scan_due, handles, data, out, released,
                 delVars, waited, abortDropped, heardDup, gaveUp>>

\* while self.paused: if self.abort_flag: break; time.sleep(0.1)
SinkPauseWaitRewinds ==
  /\ sk = "loop"
  /\ data # 0
  /\ paused /\ ~abort_flag
  /\ waited' = (waited \/ out # <<>>)
  /\ data' = ReadFrames(1)
  /\ UNCHANGED <<restarted, api_raised, dupBehind,
                 enabled, play_queue, flagVars, is_speaking, currently_playing,
                 queued_files, disk, pc, scan_due, sk, handles, out, released,
                 delVars, outcome, abortDropped, heardDup, gaveUp>>

SinkPauseWait ==
  /\ sk = "loop"
  /\ data # 0
  /\ paused /\ ~abort_flag
  /\ waited' = (waited \/ out # <<>>)
  /\ UNCHANGED <<restarted, api_raised, dupBehind,
                 enabled, play_queue, flagVars, is_speaking, currently_playing,
                 queued_files, disk, pc, scan_due, sinkVars, delVars, outcome,
                 abortDropped, heardDup, gaveUp>>

\* if self.abort_flag: self.abort_flag = False; break
SinkAborted ==
  /\ sk = "loop"
  /\ data # 0
  /\ abort_flag
  /\ abort_flag' = FALSE
  /\ outcome' = "aborted"
  /\ sk' = "finally"
  /\ UNCHANGED <<restarted, api_raised, dupBehind,
                 enabled, play_queue, paused, terminate, is_speaking,
                 currently_playing, queued_files, disk, pc, scan_due, handles,
                 data, out, released, delVars, waited, abortDropped, heardDup, gaveUp>>

\* Neither paused nor aborted: the chunk goes to stream.write.
SinkProceed ==
  /\ sk = "loop"
  /\ data # 0
  /\ ~paused /\ ~abort_flag
  /\ sk' = "write"
  /\ UNCHANGED <<restarted, api_raised, enabled, play_queue, flagVars, is_speaking, currently_playing,
                 queued_files, disk, pc, scan_due, handles, data, out, released,
                 delVars, sessionGhosts, heardDup, gaveUp>>

\* stream.write(data); data = wf.readframes(chunk_size)
SinkWrite ==
  /\ sk = "write"
  /\ out' = Append(out, data)
  /\ data' = ReadFrames(data + 1)
  /\ sk' = "loop"
  /\ heardDup' = IF dupBehind THEN heardDup \cup {currently_playing} ELSE heardDup
  /\ UNCHANGED <<restarted, api_raised, enabled, play_queue, flagVars, is_speaking, currently_playing,
                 queued_files, disk, pc, scan_due, handles, released, delVars,
                 sessionGhosts, gaveUp>>

\* stream.write or readframes raises: except Exception, then the finally block.
SinkWriteFails ==
  /\ sk = "write"
  /\ outcome' = "error"
  /\ sk' = "finally"
  /\ UNCHANGED <<restarted, api_raised, dupBehind,
                 enabled, play_queue, flagVars, is_speaking, currently_playing,
                 queued_files, disk, pc, scan_due, handles, data, out, released,
                 delVars, waited, abortDropped, heardDup, gaveUp>>

\* finally: stream.stop_stream(); stream.close(); p.terminate(); wf.close()
SinkFinally ==
  /\ sk = "finally"
  /\ released' = ReleaseOrder(handles)
  /\ handles' = {}
  /\ sk' = "returned"
  /\ UNCHANGED <<restarted, api_raised, enabled, play_queue, flagVars, is_speaking, currently_playing,
                 queued_files, disk, pc, scan_due, data, out, delVars,
                 sessionGhosts, heardDup, gaveUp>>

\* stream.stop_stream() raises inside the finally block: the exception leaves
\* _play_audio_blocking with nothing released.
SinkFinallyRaises ==
  /\ sk = "finally"
  /\ "stream" \in handles
  /\ sk' = "raised"
  /\ UNCHANGED <<restarted, api_raised, enabled, play_queue, flagVars, is_speaking, currently_playing,
                 queued_files, disk, pc, scan_due, handles, data, out, released,
                 delVars, sessionGhosts, heardDup, gaveUp>>

\* -------------------------------------------------------- Control Surface
\* The Loop is suspended at an await (or has not started, or has ended).
AtAwait == pc # "top"

\* API.play_audio(file_path)
play_audioUnchecked(n) ==
  /\ AtAwait
  /\ Len(play_queue) < MaxQueue
  /\ play_queue' = Append(play_queue, Resolve(n))
  /\ gaveUp' = gaveUp \ {Resolve(n)}
  /\ api_raised' = FALSE
  /\ UNCHANGED <<restarted, enabled, flagVars, is_speaking, currently_playing, queued_files,
                 disk, pc, scan_due, sinkVars, delVars, sessionGhosts, heardDup>>

play_audio(n) ==
  /\ AtAwait
  /\ IF ~enabled /\ ~n.abs
       THEN \* a player constructed disabled has no audio_dir: AttributeError
            /\ api_raised' = TRUE
            /\ UNCHANGED <<play_queue, gaveUp>>
       ELSE /\ api_raised' = FALSE
            /\ LET file_path == Resolve(n)
               IN IF file_path \in disk
                    THEN /\ Len(play_queue) < MaxQueue
                         /\ play_queue' = Append(play_queue, file_path)
                         /\ gaveUp' = gaveUp \ {file_path}
                    ELSE UNCHANGED <<play_queue, gaveUp>>
  /\ UNCHANGED <<restarted, enabled, flagVars, is_speaking, currently_playing, queued_files,
                 disk, pc, scan_due, sinkVars, delVars, sessionGhosts, heardDup>>

\* API.pause_audio()
pause_audio ==
  /\ AtAwait
  /\ paused' = TRUE
  /\ api_raised' = FALSE
  /\ UNCHANGED <<restarted, enabled, play_queue, abort_flag, terminate, is_speaking,
                 currently_playing, queued_files, disk, pc, scan_due, sinkVars,
                 delVars, sessionGhosts, heardDup, gaveUp>>

\* API.resume_audio()
resume_audio ==
  /\ AtAwait
  /\ paused' = FALSE
  /\ api_raised' = FALSE
  /\ UNCHANGED <<restarted, enabled, play_queue, abort_flag, terminate, is_speaking,
                 currently_playing, queued_files, disk, pc, scan_due, sinkVars,
                 delVars, sessionGhosts, heardDup, gaveUp>>

\* API.stop_playing()
stop_playing ==
  /\ AtAwait
  /\ abort_flag' = TRUE
  /\ api_raised' = FALSE
  /\ UNCHANGED <<restarted, dupBehind,
                 enabled, play_queue, paused, terminate, is_speaking,
                 currently_playing, queued_files, disk, pc, scan_due, sinkVars,
                 delVars, outcome, waited, abortDropped, heardDup, gaveUp>>

\* AudioPlayer.stop()
stopHard ==
  /\ AtAwait
  /\ terminate' = TRUE
  /\ abort_flag' = TRUE
  /\ api_raised' = FALSE
  /\ UNCHANGED <<restarted, enabled, play_queue, paused, is_speaking, currently_playing,
                 queued_files, disk, pc, scan_due, sinkVars, delVars,
                 sessionGhosts, heardDup, gaveUp>>

stop ==
  /\ AtAwait
  /\ terminate' = TRUE
  /\ api_raised' = FALSE
  /\ UNCHANGED <<restarted, enabled, play_queue, abort_flag, paused, is_speaking,
                 currently_playing, queued_files, disk, pc, scan_due, sinkVars,
                 delVars, sessionGhosts, heardDup, gaveUp>>

\* play_music("__ALL__") calls self.audio_player.api.play_all(): class API
\* defines no play_all, so the call raises AttributeError and the player's
\* state stays as it was.  The call writes no field of the player, so it is
\* a step of ToolSpec only.
play_all ==
  /\ AtAwait
  /\ api_raised' = TRUE
  /\ UNCHANGED <<restarted, enabled, play_queue, flagVars, is_speaking, currently_playing,
                 queued_files, disk, pc, scan_due, sinkVars, delVars,
                 sessionGhosts, heardDup, gaveUp>>

\* --------------------------------------------------------------- producer
\* The speech producer writes a new clip file into the watched directory.
Produce(f) ==
  /\ f \notin disk
  /\ disk' = disk \cup {f}
  /\ heardDup' = heardDup \ {f}
  /\ UNCHANGED <<restarted, api_raised, enabled, play_queue, flagVars, is_speaking, currently_playing,
                 queued_files, pc, scan_due, sinkVars, delVars, sessionGhosts,
                 gaveUp>>

\* LLMClient.cleanup_audio_files_static, run after every TTS save when
\* TTS_CLEANUP_DAYS > 0 (default 7) and by the maintenance scripts: os.remove
\* of the files of the audio directory whose name ends in ".wav" (as
\* written: the test is case-sensitive) and whose mtime is before the cutoff.
\* Which files are that old is not state of the player: any of them may be.
\* An exception ends the sweep, so any subset of the old files is removed.
cleanup_audio_files_static ==
  /\ \E old \in SUBSET {f \in disk : f.ext = "wav"} :
       /\ old # {}
       /\ disk' = disk \ old
  /\ UNCHANGED <<restarted, api_raised, enabled, play_queue, flagVars, is_speaking, currently_playing,
                 queued_files, pc, scan_due, sinkVars, delVars, sessionGhosts,
                 heardDup, gaveUp>>

\* LLMClient.start_audio_player after stop_audio_player has awaited the
\* task and set audio_player_task to None: asyncio.create_task(run()) on the
\* same AudioPlayer.  run() starts with last_scan_time = 0; no field of the
\* player is reset.
RestartResetsTerminate ==
  /\ pc = "done"
  /\ pc' = "init"
  /\ scan_due' = TRUE
  /\ restarted' = TRUE
  /\ terminate' = FALSE
  /\ UNCHANGED <<api_raised, enabled, play_queue, abort_flag, paused, is_speaking,
                 currently_playing, queued_files, disk, sinkVars, delVars,
                 sessionGhosts, heardDup, gaveUp>>

Restart ==
  /\ pc = "done"
  /\ pc' = "init"
  /\ scan_due' = TRUE
  /\ restarted' = TRUE
  /\ UNCHANGED <<api_raised, enabled, play_queue, flagVars, is_speaking,
                 currently_playing, queued_files, disk, sinkVars, delVars,
                 sessionGhosts, heardDup, gaveUp>>

\* ---------------------------------------------------------- specification
Loop ==
  \/ Start
  \/ LoopExit
  \/ LoopDisabled
  \/ WakeDisabled
  \/ LoopScanRaises
  \/ LoopIdle
  \/ LoopDropMissing
  \/ LoopDispatch
  \/ WakeIdle
  \/ AwaitPlayReturns
  \/ AwaitPlayRaises
  \/ DeleteOk
  \/ DeletePermissionError
  \/ WakeRetry
  \/ DeleteOtherError

Sink ==
  \/ SinkOpen
  \/ SinkOpenFails
  \/ SinkCompleted
  \/ SinkPauseWait
  \/ SinkAborted
  \/ SinkProceed
  \/ SinkWrite
  \/ SinkWriteFails
  \/ SinkFinally
  \/ SinkFinallyRaises

Control ==
  \/ \E n \in Names : play_audio(n)
  \/ pause_audio
  \/ resume_audio
  \/ stop_playing
  \/ stop

Next ==
  \/ Loop
  \/ Sink
  \/ Control
  \/ \E f \in Clips : Produce(f)
  \/ cleanup_audio_files_static
  \/ Restart

Spec == Init /\ [][Next]_vars

\* The player together with the play_music tool of LLMClient, whose
\* "__ALL__" branch is the one caller of api.play_all.
ToolNext ==
  \/ Next
  \/ play_all

ToolSpec == Init /\ [][ToolNext]_vars

\* ------------------------------------------------ the Watcher on its own
\* What may lie in and around the watched directory when the scan runs: the
\* clips, a file of another format, and a .wav file of another directory.
ScanFiles ==
  Clips \cup {Path("c", "mp3"), [dir |-> "other", stem |-> "a", ext |-> "wav"]}

\* _scan_for_new_audio_files reads the directory, queued_files and
\* currently_playing: each starts at any value of its type.
ScanInit ==
  /\ enabled = TRUE
  /\ play_queue = <<>>
  /\ abort_flag = FALSE
  /\ paused = FALSE
  /\ is_speaking = FALSE
  /\ terminate = FALSE
  /\ currently_playing \in Clips \cup {NoPath}
  /\ queued_files \in SUBSET Clips
  /\ disk \in SUBSET ScanFiles
  /\ pc = "top"
  /\ attempt = 0
  /\ deleted = FALSE
  /\ scan_due = TRUE
  /\ sk = "none"
  /\ handles = {}
  /\ data = 0
  /\ out = <<>>
  /\ released = <<>>
  /\ outcome = "none"
  /\ removeCalls = 0
  /\ failKinds = {}
  /\ dupBehind = FALSE
  /\ heardDup = {}
  /\ gaveUp = {}
  /\ waited = FALSE
  /\ abortDropped = FALSE
  /\ api_raised = FALSE
  /\ restarted = FALSE

\* run(), lines 146-155: if the interval has passed, new_files =
\* self._scan_for_new_audio_files(); each is put on play_queue and added to
\* queued_files; last_scan_time = current_time.
ScanAndRegister ==
  /\ ScanDue
  /\ \E order \in Perms(Found) : play_queue' = play_queue \o order
  /\ queued_files' = queued_files \cup Found
  /\ scan_due' = FALSE
  /\ UNCHANGED <<restarted, api_raised, enabled, flagVars, is_speaking, currently_playing, disk,
                 pc, sinkVars, delVars, sessionGhosts, heardDup, gaveUp>>

\* scan_interval passes.
ScanClock ==
  /\ ~scan_due
  /\ scan_due' = TRUE
  /\ UNCHANGED <<restarted, api_raised, enabled, play_queue, flagVars, is_speaking, currently_playing,
                 queued_files, disk, pc, sinkVars, delVars, sessionGhosts,
                 heardDup, gaveUp>>

\* A file appears.
ScanProduce(f) ==
  /\ f \notin disk
  /\ disk' = disk \cup {f}
  /\ UNCHANGED <<restarted, api_raised, enabled, play_queue, flagVars, is_speaking, currently_playing,
                 queued_files, pc, scan_due, sinkVars, delVars, sessionGhosts,
                 heardDup, gaveUp>>

ScanNext ==
  \/ ScanAndRegister
  \/ ScanClock
  \/ \E f \in ScanFiles : ScanProduce(f)

ScanSpec == ScanInit /\ [][ScanNext]_vars

\* The event loop's clock advances: the sleep at the end of an iteration ends
\* with the scan interval over.
ClockAdvances == WakeIdle /\ scan_due'

\* Scheduling.  The event loop resumes run() whenever what it awaits is ready;
\* the worker thread of asyncio.to_thread keeps running and polls the flags
\* every 0.1 s, so it sees a flag value that keeps coming back; and of the
\* sleeps at the end of the iterations some end after the scan interval.
FairSpec ==
  /\ Spec
  /\ WF_vars(Loop)
  /\ SF_vars(Sink)
  /\ SF_vars(ClockAdvances)


\* ------------------------------------------------------------- properties
\* A step of the Loop that dispatches a Sink session.
Dispatches == currently_playing = NoPath /\ currently_playing' # NoPath

\* A step in which os.remove is called.
RemoveCalled == removeCalls' > removeCalls

\* A step in which the Loop leaves the deletion loop without having deleted.
GivesUp == pc = "del_sleep" /\ pc' = "sleep" /\ ~deleted'

\* C1: when a clip's playback ended because the Sink observed the abort, the
\* Loop makes no attempt to delete the clip file.
C1_AbortSkipsDeletion == outcome = "aborted" => removeCalls = 0

\* C2: a clip whose path was on the queue twice at the same time is played at
\* most once: after a session that left a second entry of its path waiting has
\* written the clip to the output stream, that path is not dispatched again
\* for the same file.
C2_Dedup ==
  [][\A p \in Clips :
       (Dispatches /\ currently_playing' = p) => p \notin heardDup]_vars

\* C3, as stated: a clip whose deletion fails on every attempt gets exactly 3
\* attempts; the file stays, the path leaves queued_files, current is cleared.
C3_ThreeAttemptsAnyError ==
  [][GivesUp =>
       /\ removeCalls' = MaxAttempts
       /\ currently_playing \in disk'
       /\ currently_playing \notin queued_files'
       /\ currently_playing' = NoPath]_vars

\* C3, amended: a clip whose deletion fails with a permission (file-lock)
\* error on every attempt gets exactly 3 attempts; after the third the file is
\* still on disk, the path has left queued_files and current is cleared.
C3_ThreeAttemptsPermissionError ==
  [][(GivesUp /\ failKinds' = {"PermissionError"}) =>
       /\ removeCalls' = MaxAttempts
       /\ currently_playing \in disk'
       /\ currently_playing \notin queued_files'
       /\ currently_playing' = NoPath]_vars

C3_Witness ==
  /\ pc = "sleep"
  /\ ~deleted
  /\ removeCalls = MaxAttempts
  /\ failKinds = {"PermissionError"}

\* C4: a clip whose deletion was given up, and whose file is still in the
\* directory, is never registered and queued again by the Watcher.
C4_NoRedetection ==
  [][\A p \in gaveUp : p \in queued_files' => p \in queued_files]_vars

\* C5: clips are played in the order they were put on the queue: a dispatch
\* happens only when no session is open, it takes the oldest entry, the
\* entries that stay keep their order and new entries go behind them; an
\* entry leaves the queue only as the oldest one.
C5_Fifo ==
  [][/\ Dispatches =>
          /\ sk = "none"
          /\ IF play_queue # <<>>
               THEN currently_playing' = Head(play_queue)
               ELSE currently_playing' \in Found
     /\ \/ IsPrefix(play_queue, play_queue')
        \/ /\ play_queue # <<>>
           /\ IsPrefix(Tail(play_queue), play_queue')
           /\ pc = "top"]_vars

\* A session starts for one clip while another clip, registered by the Watcher
\* before the dispatch, waits behind it.
C5_Witness ==
  /\ sk = "open"
  /\ play_queue # <<>>
  /\ Head(play_queue) # currently_playing
  /\ {currently_playing, Head(play_queue)} \subseteq queued_files

\* C6: every deletion attempt on a clip's file happens after the Sink session
\* for that clip has returned and released its handles, never while it is open.
C6_DeleteAfterPlayback ==
  [][RemoveCalled => (sk = "none" /\ handles = {} /\ outcome # "none")]_vars

C6_Witness == pc = "sleep" /\ deleted /\ outcome = "completed"

\* C7: the chunks written to the output stream are always a prefix of the
\* clip's chunk sequence, and a session that completes (no abort, no error)
\* has written exactly that sequence, however often it was paused and resumed.
C7_NoLossOnPause ==
  /\ IsPrefix(out, AllChunks)
  /\ (outcome = "completed" /\ sk \in {"finally", "returned", "raised"})
       => out = AllChunks

C7_Witness ==
  /\ sk = "returned"
  /\ outcome = "completed"
  /\ waited
  /\ out = AllChunks

\* C8: paused is false whenever a Sink session is dispatched (a pause issued
\* while no clip is playing does not carry over to the next clip).
C8_PauseResetAtDispatch == [][Dispatches => ~paused']_vars

\* C9: abort_flag is false whenever a Sink session is dispatched (an abort
\* raised while no clip is playing never cuts short a later clip).
C9_AbortResetAtDispatch == [][Dispatches => ~abort_flag']_vars

C9_Witness == sk = "open" /\ abortDropped /\ ~abort_flag

\* C10: once the Sink has observed the abort it writes no further chunk, the
\* abort flag is cleared by that step, and when the session is over it holds
\* none of its handles.
C10_AbortReleases ==
  [][/\ (outcome # "aborted" /\ outcome' = "aborted") => ~abort_flag'
     /\ (outcome = "aborted" /\ sk # "none") => out' = out
     /\ (outcome = "aborted" /\ pc = "await_play" /\ pc' # "await_play")
          => handles = {}]_vars

\* C11: stop() is a drain-then-exit shutdown.  The call changes nothing but
\* terminate; a session in flight still ends only by completing with every
\* chunk written (or by an abort or an error of its own) and the deletion
\* step follows it; the Loop exits only from the top of an iteration, with no
\* session open, and once terminate is set it dispatches no clip and takes
\* nothing from the queue.
C11_DrainThenExit ==
  [][/\ (terminate' /\ ~terminate) =>
          UNCHANGED <<abort_flag, paused, sinkVars, pc, play_queue, is_speaking,
                      currently_playing, queued_files, disk>>
     /\ (terminate /\ sk = "loop" /\ sk' = "finally" /\ ~abort_flag) =>
          (outcome' = "completed" /\ out = AllChunks)
     /\ (terminate /\ pc = "await_play" /\ sk = "returned") =>
          pc' \in {"await_play", "del_sleep"}
     /\ (terminate /\ pc = "del_sleep" /\ pc' # "del_sleep") => RemoveCalled
     /\ (pc' = "done" /\ pc # "done") =>
          (pc = "top" /\ sk = "none" /\ currently_playing = NoPath /\ ~is_speaking)
     /\ terminate => (~Dispatches /\ IsPrefix(play_queue, play_queue'))]_vars

\* stop() was called while a session had a chunk left to write and another
\* clip waited on the queue.
C11_Witness ==
  /\ terminate
  /\ pc = "await_play"
  /\ sk = "loop"
  /\ data # 0
  /\ ~paused /\ ~abort_flag
  /\ play_queue # <<>>

\* C12: after stop() has been called the Loop eventually reaches Terminated
\* (run() returns), whatever state of a running engine the call found.
C12_StopTerminates == (terminate /\ pc # "crashed") ~> (pc = "done")

\* C13: no failure inside the engine ends the Loop: run() never dies of an
\* exception, and it returns only after stop() has been called.
C13_NoFailureEndsLoop == pc # "crashed" /\ (pc = "done" => terminate)

\* The engine is running: enabled, started or about to, not stopped, not dead.
Running == enabled /\ ~terminate /\ pc # "crashed"

\* No deletion attempt has failed.
DeletionSucceeds == failKinds = {}

\* C14: every .wav file that appears in the watched directory while the
\* engine is running is eventually detected, played and deleted, provided
\* playback is not left paused and deletion succeeds: the Loop removes a
\* file only as the current clip after its playback completed, every
\* file on disk eventually leaves it, and once nothing is left to process
\* queued_files is empty.
C14_DetectedPlayedDeleted ==
  /\ [][\A f \in Clips :
          (RemoveCalled /\ f \in disk /\ f \notin disk') =>
            (currently_playing = f /\ outcome = "completed")]_vars
  /\ \A f \in Clips :
       ([]Running /\ []DeletionSucceeds /\ []<>(~paused))
         => ((f \in disk) ~> (f \notin disk))
  /\ []((disk = {} /\ play_queue = <<>> /\ currently_playing = NoPath)
          => queued_files = {})

\* C15: the output device is held by at most one Sink session: a session is
\* open, and handles are held, only while the Loop is suspended in the await
\* of that session, so the Loop is never at a point where it could dispatch
\* while a session is open.
C15_OneSession ==
  /\ sk # "none" => (pc = "await_play" /\ is_speaking /\ currently_playing # NoPath)
  /\ handles # {} => sk \in {"loop", "write", "finally", "raised"}
  /\ pc \in {"top", "sleep", "sleep_disabled", "init"} => ~is_speaking

\* A session holds the device while another clip waits on the queue, a new
\* file waits for the Watcher and an abort has been requested.
C15_Witness ==
  /\ sk = "write"
  /\ handles = Handles
  /\ play_queue # <<>>
  /\ abort_flag
  /\ \E f \in disk : f \notin queued_files /\ f # currently_playing

\* The Loop is inside the iteration of a dispatched clip.
InClipIteration == pc \in {"await_play", "del_sleep", "retry_sleep"}

\* C16, as stated: current is none or the path dequeued by the iteration in
\* progress, and queued_files never contains the path equal to current.
C16_QueuedExcludesCurrent ==
  /\ currently_playing # NoPath <=> InClipIteration
  /\ currently_playing \notin queued_files

\* C16, amended: current is none or the path dequeued by the iteration in
\* progress; a path the Watcher registered stays in queued_files while it is
\* current and leaves the set only when its iteration ends or when it is
\* dropped as missing; every path in queued_files is on the queue or current.
C16_RegistryConsistency ==
  /\ [](currently_playing # NoPath <=> InClipIteration)
  /\ [](queued_files \subseteq (Range(play_queue) \cup {currently_playing}))
  /\ [][/\ Dispatches =>
            (currently_playing' \in queued_files'
               <=> currently_playing' \in (queued_files \cup Found))
       /\ \A p \in queued_files \ queued_files' :
            \/ p = currently_playing /\ currently_playing' = NoPath
            \/ pc = "top" /\ p \notin disk /\ play_queue # <<>>]_vars

\* A clip the Watcher registered is being played, and is in queued_files,
\* while another clip waits.
C16_Witness ==
  /\ sk = "write"
  /\ currently_playing \in queued_files
  /\ play_queue # <<>>
  /\ Head(play_queue) \notin queued_files

\* The path play_audio is to enqueue for the argument n.
ExpectedPath(n) ==
  IF n.abs THEN [dir |-> n.dir, stem |-> n.stem, ext |-> n.ext]
  ELSE Path(n.stem, n.ext)

\* C17: play_audio resolves a name that is not absolute against the watched
\* directory; every call either appends to the queue the resolved path of a
\* file that exists or, the file missing, leaves the queue as it was; in
\* neither case does it touch queued_files or current.  (The steps taken
\* while the Loop is suspended that leave the flags, the Sink and the
\* directory alone are the calls of play_audio.)
C17_Enqueue ==
  [][(AtAwait /\ pc' = pc /\ sk' = sk /\ flagVars' = flagVars /\ disk' = disk
        /\ ~api_raised') =>
       /\ UNCHANGED <<queued_files, currently_playing, is_speaking>>
       /\ \/ play_queue' = play_queue
          \/ \E n \in Names :
               /\ ExpectedPath(n) \in disk
               /\ play_queue' = Append(play_queue, ExpectedPath(n))]_vars

\* A bare name was enqueued before the Loop started: the queue holds the path
\* in the watched directory, and queued_files is empty.
C17_Witness ==
  /\ pc = "init"
  /\ play_queue # <<>>
  /\ Head(play_queue).dir = audio_dir
  /\ queued_files = {}

\* The queue entry that stands for "play all known clips".
AllSentinel == [dir |-> "", stem |-> "__ALL__", ext |-> ""]

\* C18: the play-all command, as issued by play_music("__ALL__"), is accepted
\* and pushes the sentinel onto the queue (which the Loop later expands into
\* one entry per known clip).
C18_PlayAll ==
  [][play_all => (~api_raised' /\ play_queue' = Append(play_queue, AllSentinel))]_vars

\* C19: when a clip's playback session ended in an error (the file or the
\* device could not be opened, or a write failed), the Loop makes no attempt
\* to delete the clip file, and when the iteration is over current is cleared.
C19_ErrorSkipsDeletion ==
  /\ outcome = "error" => removeCalls = 0
  /\ (outcome = "error" /\ pc = "sleep") =>
       (currently_playing = NoPath /\ ~is_speaking)

\* C20: the queue never holds the same path twice at the same time, and
\* every path on the queue is recorded in queued_files.
C20_NoDuplicates ==
  /\ \A i, j \in 1..Len(play_queue) : play_queue[i] = play_queue[j] => i = j
  /\ Range(play_queue) \subseteq queued_files

\* A Sink session is open: it may hold the device.
SessionOpen == sk # "none"

\* C21, as stated: current is set exactly while a Sink session is open: not
\* none when one is open, none when none is (idle, scanning, deleting).
C21_CurrentIffSession == (currently_playing # NoPath) <=> SessionOpen

\* C21, amended: current is set from the dispatch of a clip to the end of its
\* iteration: it is not none while a session is open, it stays set through
\* the deletion attempts and their delays, it is none everywhere else, and
\* it changes only from none to a path or from a path to none.
C21_CurrentUntilIterationEnds ==
  /\ [](SessionOpen => currently_playing # NoPath)
  /\ [](pc \in {"del_sleep", "retry_sleep"} =>
          (currently_playing # NoPath /\ ~SessionOpen))
  /\ [](pc \in {"init", "top", "sleep", "sleep_disabled", "done", "crashed"} =>
          currently_playing = NoPath)
  /\ [][currently_playing' # currently_playing =>
          (currently_playing = NoPath \/ currently_playing' = NoPath)]_vars

\* The Loop waits to retry a deletion: no session is open and current is set.
C21_Witness ==
  /\ pc = "retry_sleep"
  /\ sk = "none"
  /\ currently_playing # NoPath
  /\ removeCalls > 0

\* C22: on every exit path of a Sink session the handles it acquired are
\* released, in the order output stream, device handle, input file, before
\* control returns to the Loop; a session that has left _play_audio_blocking,
\* by returning or by raising, holds no handle.
C22_ReleasesOnEveryExit ==
  [][(sk = "finally" /\ sk' # "finally") =>
       (handles' = {} /\ released' = ReleaseOrder(handles))]_vars

\* C23: playback does not stall the scan: a playable file that is on disk,
\* untracked, while a Sink session is in progress is detected and queued
\* while that session is still in progress (unless the file disappears).
C23_ScanDuringPlayback ==
  \A f \in Clips :
    (SessionOpen /\ f \in disk /\ IsWav(f) /\ f \notin queued_files
       /\ f # currently_playing)
      ~> ((SessionOpen /\ f \in queued_files) \/ f \notin disk)

\* C24: a clip file leaves the watched directory only through the Loop's
\* Deleting step: whenever the directory loses a file, the step is an
\* os.remove of the Loop and the file is the current clip.
C24_OnlyLoopDeletes ==
  [][\A f \in disk \ disk' : RemoveCalled /\ pc = "del_sleep" /\ f = currently_playing]_vars

\* The files of the watched directory whose extension is the playable one.
Playable == {f \in disk : f.dir = audio_dir /\ f.ext \in {"wav", "WAV"}}

\* C25: a scan returns exactly the playable files of the watched directory
\* that are neither in queued_files nor the current clip; the step that runs
\* it adds each returned path to the queue, once, and to queued_files, and
\* changes neither current nor the entries already queued nor the directory.
C25_ScanExact ==
  [][(scan_due /\ ~scan_due') =>
       LET new_files == Playable \ (queued_files \cup {currently_playing})
       IN /\ queued_files' = queued_files \cup new_files
          /\ IsPrefix(play_queue, play_queue')
          /\ Len(play_queue') = Len(play_queue) + Cardinality(new_files)
          /\ {play_queue'[i] : i \in (Len(play_queue) + 1)..Len(play_queue')} = new_files
          /\ UNCHANGED <<currently_playing, disk>>]_vars

\* A scan has run with an upper-case clip to find, a file of another format
\* and the current clip to leave out, and a queued path to skip.
C25_Witness ==
  /\ ~scan_due
  /\ Path("c", "mp3") \in disk
  /\ currently_playing = Path("a", "wav")
  /\ currently_playing \in disk
  /\ play_queue = <<Path("b", "WAV")>>
  /\ queued_files = {Path("b", "WAV")}

\* C26: when the path taken from the queue no longer exists, the iteration
\* removes it from queued_files, opens no session, calls no os.remove and
\* removes no file, leaves current none and is_speaking clear, keeps the rest
\* of the queue in order, and goes on to the next iteration without sleeping.
C26_MissingDropped ==
  [][(pc = "top" /\ pc' = "top" /\ play_queue' # play_queue) =>
       /\ play_queue # <<>>
       /\ Head(play_queue) \notin disk
       /\ Head(play_queue) \notin queued_files'
       /\ queued_files \ {Head(play_queue)} \subseteq queued_files'
       /\ IsPrefix(Tail(play_queue), play_queue')
       /\ sk = "none" /\ sk' = "none" /\ handles' = {}
       /\ removeCalls' = removeCalls /\ disk' = disk
       /\ currently_playing' = NoPath /\ ~is_speaking']_vars

\* A path was just dropped as missing and the next entry, which exists,
\* waits for the iteration that follows.
C26_Witness ==
  /\ pc = "top"
  /\ outcome = "missing"
  /\ play_queue # <<>>
  /\ Head(play_queue) \in disk
  /\ Head(play_queue) \in queued_files

\* C27: no tracking leak.  Wherever the Loop is suspended, every path in
\* queued_files is still on the play queue or is the current clip; so at the
\* sleep that ends an iteration, whichever way its clip ended (missing,
\* played, aborted, playback error, deletion given up), the path just
\* processed is in queued_files only if another entry for it is queued, and
\* with an empty queue queued_files is empty.
C27_NoTrackingLeak ==
  /\ AtAwait => \A p \in queued_files :
                  p = currently_playing \/ \E i \in 1..Len(play_queue) : play_queue[i] = p
  /\ pc = "sleep" => (currently_playing = NoPath /\ queued_files \subseteq Range(play_queue))
  /\ (pc = "sleep" /\ play_queue = <<>>) => queued_files = {}

\* The Loop gave up deleting a clip after the last attempt: the file is
\* still on disk and its path is tracked no more.
C27_Witness ==
  /\ pc = "sleep"
  /\ removeCalls = MaxAttempts
  /\ ~deleted
  /\ gaveUp # {}
  /\ gaveUp \subseteq disk
  /\ queued_files = {}

\* A step in which os.remove fails with an error that is not PermissionError.
OtherErrorRaised == RemoveCalled /\ "OSError" \in failKinds' \ failKinds

\* C28, as stated: a deletion attempt that fails with an error other than a
\* permission error is the only attempt made for its clip; the file stays
\* on disk, the path leaves queued_files and current is cleared.
C28_OtherErrorOneAttempt ==
  [][OtherErrorRaised =>
       /\ removeCalls' = 1
       /\ pc' = "sleep"
       /\ disk' = disk
       /\ currently_playing \notin queued_files'
       /\ currently_playing' = NoPath]_vars

\* C28, amended: such a failure is the last attempt made for its clip: the
\* Loop leaves the deletion loop at once, after one attempt when no
\* permission error came before it and after at most MaxAttempts otherwise;
\* the directory is unchanged, the path leaves queued_files and current is
\* cleared.
C28_OtherErrorLastAttempt ==
  [][OtherErrorRaised =>
       /\ removeCalls' = attempt + 1
       /\ removeCalls' <= MaxAttempts
       /\ failKinds = {} => removeCalls' = 1
       /\ pc' = "sleep"
       /\ ~deleted'
       /\ disk' = disk
       /\ currently_playing \notin queued_files'
       /\ currently_playing' = NoPath /\ ~is_speaking']_vars

\* A permission error, then another error on the second attempt: the Loop
\* has left the deletion loop after two attempts and the file is on disk.
C28_Witness ==
  /\ pc = "sleep"
  /\ failKinds = {"PermissionError", "OSError"}
  /\ removeCalls = 2
  /\ ~deleted
  /\ gaveUp \cap disk # {}
  /\ currently_playing = NoPath

\* C29: a clip is played at most once per file, however often its path is
\* queued.  A deletion that succeeds removes the current clip's file; the
\* player creates no file, so the path stays missing until the producer
\* writes it again; and a session is started only for a path whose file
\* exists, any other entry being taken off the queue without one.
C29_PlayedOncePerFile ==
  [][/\ (deleted' /\ ~deleted) =>
          (currently_playing \in disk /\ currently_playing \notin disk')
     /\ (disk' \ disk # {}) => UNCHANGED <<pc, sk, play_queue, queued_files>>
     /\ Dispatches => currently_playing' \in disk
     /\ (pc = "top" /\ play_queue # <<>> /\ Head(play_queue) \notin disk
           /\ play_queue' # play_queue) =>
          (pc' = "top" /\ sk' = "none" /\ out' = <<>>)]_vars

\* a.wav was queued twice, played to the end and deleted; its second entry
\* is next on the queue and its file is gone.
C29_Witness ==
  /\ pc = "sleep"
  /\ deleted
  /\ outcome = "completed"
  /\ disk = {Path("b", "WAV")}
  /\ play_queue = <<Path("a", "wav")>>
  /\ queued_files = {}

\* C30: terminate is never reset, so a run() started after stop() returns at
\* once: no step clears terminate; with terminate set the Loop's only step
\* from the top of an iteration is its return, which scans, dequeues, plays
\* and deletes nothing; and a player that was started again is, for ever,
\* either not yet running or returning or returned, with no session.
C30_NoRestart ==
  /\ [][terminate => terminate']_vars
  /\ [][(terminate /\ pc = "top" /\ pc' # "top") =>
          /\ pc' = "done"
          /\ UNCHANGED <<play_queue, queued_files, currently_playing, is_speaking,
                         disk, sk, removeCalls, scan_due>>]_vars
  /\ [](restarted =>
          /\ terminate
          /\ pc \in {"init", "top", "done"}
          /\ sk = "none" /\ currently_playing = NoPath /\ ~is_speaking)

\* The player was started again and run() has returned; a clip is queued and
\* a playable file that was never detected lies in the directory.
C30_Witness ==
  /\ restarted
  /\ pc = "done"
  /\ enabled
  /\ play_queue # <<>>
  /\ Head(play_queue) \in disk
  /\ \E f \in disk : IsWav(f) /\ f \notin queued_files /\ f \notin Range(play_queue)

====
